---- MODULE Spec2Model ----
(***************************************************************************)
(* indico-migrate: the top-level driver (migrate.py) and the event         *)
(* pipeline (steps/events/importer.py).                                    *)
(*                                                                         *)
(* Spec        EventImporter.migrate(): trigger bracket, step lifecycle,   *)
(*             per-event context creation and the synthetic-id counter.    *)
(* SpecDates   the same run over records that differ in dates and timezone.*)
(* SpecLongRun the loop of migrate_event_data next to a batch boundary of  *)
(*             the committing and flushing iterators.                      *)
(* SpecDriver  migrate(): setup() precondition check, then the steps.      *)
(***************************************************************************)
EXTENDS Integers, Sequences, FiniteSets, TLC

\* ------------------------------------------------------------------ bounds
\* Largest number of legacy conferences in zodb_root['conferences'].
MaxEvents == 2
\* Largest stored value of the legacy CONFERENCE counter.
MaxSeed == 1

\* ------------------------------------------------- program constants
\* flushing_iterator(iterable, n=5000)
flushing_n == 5000
\* committing_iterator(iterable) is called with its default batch size
committing_n == 100

VARIABLES
    \* --- legacy store (read-only input)
    total,              \* len(zodb_root['conferences'])
    candidates,         \* the records zodb_root['conferences'] is made of
    conferences,        \* the conferences read so far, in iteration order
    seed,               \* zodb_root['counters']['CONFERENCE']._Counter__count
    \* --- EventImporter.migrate
    pc,                 \* position in migrate / migrate_event_data
    enabled,            \* consistent_timetable trigger state per table
    exc,                \* an exception is propagating
    importers,          \* the list of step instances
    stepIdx,            \* index of `importer` in the loops over importers
    pos,                \* index in `conferences` of the record last yielded
    yielded,            \* i of enumerate(iterable, 1) in the iterator chain
    context,            \* the current _EventContext
    event_id_counter,   \* _EventContext.event_id_counter (class attribute)
    events,             \* Event records built by create_event
    log,                \* calls made on steps and contexts, in order
    printed,            \* print_error / print_warning output
    draws,              \* values returned by gen_event_id, in order
    pending,            \* conferences whose Event is staged in db.session
    committed,          \* conferences whose Event has been committed
    commits,            \* number of db.session.commit() calls
    syncs,              \* number of conn.sync() calls
    \* --- driver (migrate.py)
    dbRows,             \* models of the target store that have rows
    answer,             \* what the operator types at the raw_input prompt
    dpc,                \* position in migrate() / setup()
    dstep,              \* index of `step` in the loop over steps
    stepsRun,           \* step classes constructed and run, in order
    touched,            \* the target store was written to
    console             \* lines printed by setup()

evars == <<total, candidates, conferences, seed, pc, enabled, exc, importers, stepIdx, pos,
           yielded, context, event_id_counter, events, log, printed, draws, pending,
           committed, commits, syncs>>
dvars == <<dbRows, answer, dpc, dstep, stepsRun, touched, console>>
vars == <<evars, dvars>>

\* ------------------------------------------------------------ helpers
Range(s) == {s[k] : k \in 1..Len(s)}

None == "None"

\* ---------------------------------------------------- string handling
\* Identifiers are strings, modelled as sequences of characters.
DigitChar == <<"0", "1", "2", "3", "4", "5", "6", "7", "8", "9">>
Digits == Range(DigitChar)
DigitVal(c) == (CHOOSE k \in 1..10 : DigitChar[k] = c) - 1

\* unicode.isdigit(): non-empty and every character a digit
isdigit(s) == Len(s) > 0 /\ \A k \in 1..Len(s) : s[k] \in Digits

\* int(s) for a string of digits
RECURSIVE int(_)
int(s) == IF Len(s) = 0 THEN 0
          ELSE 10 * int(SubSeq(s, 1, Len(s) - 1)) + DigitVal(s[Len(s)])

\* str(n) for n >= 0
RECURSIVE str(_)
str(n) == IF n < 10 THEN <<DigitChar[n + 1]>>
          ELSE str(n \div 10) \o <<DigitChar[(n % 10) + 1]>>

\* indico.util.string.is_legacy_id: not numeric, or numeric with a leading zero
is_legacy_id(id) == ~isdigit(id) \/ str(int(id)) # id

\* ------------------------------------------------------ step pipeline
\* variant: the timetable step is listed before the abstract step
_get_all_steps_swapped ==
    <<"EventMiscImporter", "EventTypeImporter", "EventACLImporter", "EventLogImporter",
      "EventSettingsImporter", "EventPaymentSettingsImporter", "EventAlarmImporter",
      "EventImageImporter", "EventLayoutImporter", "EventShortUrlsImporter",
      "EventMenuImporter", "EventSurveyImporter", "EventRegFormImporter",
      "EventTracksImporter", "EventParticipantsImporter", "EventTimetableImporter",
      "EventAbstractImporter", "EventAttachmentsImporter", "EventLegacyIdImporter">>

\* lines 36-53: the step classes in their declared order
_get_all_steps ==
    <<"EventMiscImporter", "EventTypeImporter", "EventACLImporter", "EventLogImporter",
      "EventSettingsImporter", "EventPaymentSettingsImporter", "EventAlarmImporter",
      "EventImageImporter", "EventLayoutImporter", "EventShortUrlsImporter",
      "EventMenuImporter", "EventSurveyImporter", "EventRegFormImporter",
      "EventTracksImporter", "EventParticipantsImporter", "EventAbstractImporter",
      "EventTimetableImporter", "EventAttachmentsImporter", "EventLegacyIdImporter">>

\* tables whose consistent_timetable trigger migrate() toggles
tables == <<"timetable_entries", "session_blocks", "contributions", "breaks">>

\* ------------------------------------------------------ legacy records
\* global_ns.legacy_category_ids: legacy category id -> target Category,
\* populated by the category step before the event pipeline runs.
legacy_category_ids == [c \in {"10"} |-> "Category10"]

\* A datetime: wall-clock value and tzinfo (None when naive).
AwareDt(wall) == [wall |-> wall, tzinfo |-> "UTC"]
NaiveDt(wall) == [wall |-> wall, tzinfo |-> None]

\* conf.__dict__ with every attribute create_event reads
FullDict == [title |-> "Conf", description |-> "text", timezone |-> "Europe/Zurich",
             startDate |-> AwareDt(10), endDate |-> AwareDt(12)]

Without(d, key) == [k \in DOMAIN d \ {key} |-> d[k]]

\* The legacy records considered: conf.__dict__ and conf._Conference__owners
\* (a list of categories, given by their legacy ids).  A complete record, one
\* without title, one without title and without owner, one without owner, one
\* whose owner was not migrated, one without description.
Shapes ==
    {[dict |-> FullDict, owners |-> <<"10">>],
     [dict |-> Without(FullDict, "title"), owners |-> <<"10">>],
     [dict |-> Without(FullDict, "title"), owners |-> <<>>],
     [dict |-> FullDict, owners |-> <<>>],
     [dict |-> FullDict, owners |-> <<"20">>],
     [dict |-> Without(FullDict, "description"), owners |-> <<"10">>]}

\* Records that differ in their dates and timezone: a complete record with
\* aware dates, one with naive start and end, one with a naive start and
\* without timezone, one without startDate, one with a naive start and
\* without endDate, one without title.
DateShapes ==
    {[dict |-> FullDict, owners |-> <<"10">>],
     [dict |-> [FullDict EXCEPT !.startDate = NaiveDt(10), !.endDate = NaiveDt(12)],
      owners |-> <<"10">>],
     [dict |-> Without([FullDict EXCEPT !.startDate = NaiveDt(10)], "timezone"),
      owners |-> <<"10">>],
     [dict |-> Without(FullDict, "startDate"), owners |-> <<"10">>],
     [dict |-> Without([FullDict EXCEPT !.startDate = NaiveDt(10)], "endDate"),
      owners |-> <<"10">>],
     [dict |-> Without(FullDict, "title"), owners |-> <<"10">>]}

\* conf.id values: modern numeric, numeric with a leading zero, non-numeric
Ids == {<<"1">>, <<"0", "1">>, <<"a">>}

Conferences ==
    {[id |-> id, dict |-> s.dict, owners |-> s.owners, closed |-> FALSE] :
        id \in Ids, s \in Shapes}

DateConferences ==
    {[id |-> id, dict |-> s.dict, owners |-> s.owners, closed |-> FALSE] :
        id \in Ids, s \in DateShapes}

\* a context before create_event: self.event is not set (the empty sequence)
NoContext == [rec |-> 0, is_legacy |-> FALSE, event |-> <<>>]

Call(op, step, rec) == [op |-> op, step |-> step, rec |-> rec]


\* --------------------------------------------------------- create_event
\* variant: the counter is an instance attribute, so every context starts
\* again from the stored legacy value
gen_event_id_per_context(counter) == seed + 1

\* variant: the counter advances by two per draw
gen_event_id_by_two(counter) == counter + 2

\* lines 134-137: cls.event_id_counter += 1; return cls.event_id_counter
gen_event_id(counter) == counter + 1

\* variant: the title check is missing
HasTitleOrNot(conf) == TRUE

\* line 93: 'title' in self.conf.__dict__
HasTitle(conf) == "title" \in DOMAIN conf.dict

\* variant: an owner that was not migrated falls back to a category instead
\* of raising KeyError
parent_category_or_default(conf) ==
    IF Len(conf.owners) = 0 THEN "IndexError"
    ELSE IF conf.owners[1] \notin DOMAIN legacy_category_ids THEN "Category10"
    ELSE legacy_category_ids[conf.owners[1]]

\* line 98: legacy_category_ids[conf._Conference__owners[0].id], or the error
\* the lookup raises
parent_category(conf) ==
    IF Len(conf.owners) = 0 THEN "IndexError"
    ELSE IF conf.owners[1] \notin DOMAIN legacy_category_ids THEN "KeyError"
    ELSE legacy_category_ids[conf.owners[1]]

LookupErrors == {"IndexError", "KeyError"}

\* variant: a modern numeric id is replaced by the next counter value as well
direct_event_id_from_counter(id) == event_id_counter + 1

\* line 91: event_id = int(self.conf.id)
direct_event_id(id) == int(id)

\* convert_to_unicode(title) or '(no title)'
title_or_placeholder(t) == IF t = "" THEN "(no title)" ELSE t

\* variant: a naive datetime is always localized to UTC
_fix_naive_to_utc(dt, tz) == IF dt.tzinfo = None THEN [dt EXCEPT !.tzinfo = "UTC"] ELSE dt

\* _fix_naive: a naive datetime is localized to tz, an aware one passes through
_fix_naive(dt, tz) == IF dt.tzinfo = None THEN [dt EXCEPT !.tzinfo = tz] ELSE dt

\* print_warning('Naive datetime converted ({})'.format(dt))
NaiveWarning(dt, rec) ==
    IF dt.tzinfo = None
    THEN <<[kind |-> "warning", msg |-> "Naive datetime converted", dt |-> dt,
            event_id |-> None]>>
    ELSE <<>>

\* lines 103-112: attributes read with conf.__dict__[...] after the two
\* validations, in evaluation order
RequiredAttrs == <<"title", "description", "startDate", "endDate">>

\* first attribute whose lookup raises KeyError, or None
FirstMissing(conf) ==
    IF \E k \in 1..Len(RequiredAttrs) : RequiredAttrs[k] \notin DOMAIN conf.dict
    THEN RequiredAttrs[CHOOSE k \in 1..Len(RequiredAttrs) :
             /\ RequiredAttrs[k] \notin DOMAIN conf.dict
             /\ \A j \in 1..(k - 1) : RequiredAttrs[j] \in DOMAIN conf.dict]
    ELSE None

\* Event(id=..., title=..., ...) for a record that passed every lookup
BuildEvent(conf, rec, event_id) ==
    LET tz == IF "timezone" \in DOMAIN conf.dict THEN conf.dict.timezone ELSE "UTC"
    IN  [id |-> event_id,
         title |-> title_or_placeholder(conf.dict.title),
         description |-> conf.dict.description,
         timezone |-> tz,
         start_dt |-> _fix_naive(conf.dict.startDate, tz),
         end_dt |-> _fix_naive(conf.dict.endDate, tz),
         is_locked |-> conf.closed,
         category |-> parent_category(conf),
         is_deleted |-> FALSE,
         rec |-> rec]

\* warnings printed while the Event arguments are evaluated, up to a KeyError
EventWarnings(conf, rec) ==
    LET tz == IF "timezone" \in DOMAIN conf.dict THEN conf.dict.timezone ELSE "UTC"
        missing == FirstMissing(conf)
    IN  IF missing \in {"title", "description", "startDate"} THEN <<>>
        ELSE IF missing = "endDate" THEN NaiveWarning(conf.dict.startDate, rec)
        ELSE NaiveWarning(conf.dict.startDate, rec) \o NaiveWarning(conf.dict.endDate, rec)

ErrorLine(msg, id) == [kind |-> "error", msg |-> msg, event_id |-> id]


\* ---------------------------------------------------- db.session helpers
\* db.session.commit(): staged rows become durable
Commit ==
    /\ committed' = committed \cup pending
    /\ pending' = {}
    /\ commits' = commits + 1

\* variant: the handler commits what is staged instead of discarding it
RollbackCommits == Commit

\* db.session.rollback(): staged rows are discarded
Rollback ==
    /\ pending' = {}
    /\ UNCHANGED <<committed, commits>>

\* ------------------------------------------------ EventImporter.migrate
\* line 155: db.session.commit() before the triggers are touched
FirstCommit ==
    /\ pc = "commit0"
    /\ Commit
    /\ pc' = "disable"
    /\ UNCHANGED <<total, candidates, yielded, conferences, seed, enabled, exc,
                   importers, stepIdx, pos, context, event_id_counter, events, log,
                   printed, draws, syncs>>
    /\ UNCHANGED dvars

\* lines 156-158: ALTER TABLE events.<table> DISABLE TRIGGER consistent_timetable
\* for each of the four tables
DisableTriggers ==
    /\ pc = "disable"
    /\ enabled' = [t \in Range(tables) |-> FALSE]
    /\ pc' = "construct"
    /\ UNCHANGED <<total, candidates, yielded, conferences, seed, exc, importers,
                   stepIdx, pos, context, event_id_counter, events, log, printed, draws,
                   pending, committed, commits, syncs>>
    /\ UNCHANGED dvars

\* lines 171-174: the step classes are instantiated, in _get_all_steps order
Construct ==
    /\ pc = "construct"
    /\ importers' = _get_all_steps
    /\ stepIdx' = 1
    /\ pc' = "setup"
    /\ UNCHANGED <<total, candidates, yielded, conferences, seed, enabled, exc, pos,
                   context, event_id_counter, events, log, printed, draws, pending,
                   committed, commits, syncs>>
    /\ UNCHANGED dvars

\* lines 175-176: importer.setup()
SetupStep ==
    /\ pc = "setup"
    /\ stepIdx <= Len(importers)
    /\ log' = Append(log, Call("setup", importers[stepIdx], 0))
    /\ stepIdx' = stepIdx + 1
    /\ pc' = IF stepIdx = Len(importers) THEN "factory" ELSE "setup"
    /\ UNCHANGED <<total, candidates, yielded, conferences, seed, enabled, exc,
                   importers, pos, context, event_id_counter, events, printed, draws,
                   pending, committed, commits, syncs>>
    /\ UNCHANGED dvars

\* importer.setup() raises
SetupStepRaises ==
    /\ pc = "setup"
    /\ stepIdx <= Len(importers)
    /\ log' = Append(log, Call("setup", importers[stepIdx], 0))
    /\ exc' = TRUE
    /\ pc' = "except"
    /\ UNCHANGED <<total, candidates, yielded, conferences, seed, enabled, importers,
                   stepIdx, pos, context, event_id_counter, events, printed, draws,
                   pending, committed, commits, syncs>>
    /\ UNCHANGED dvars

\* variant: the class attribute starts from zero instead of the stored legacy
\* counter value
MakeContextFactoryFromZero ==
    /\ pc = "factory"
    /\ seed' \in 0..MaxSeed
    /\ event_id_counter' = 0
    /\ pc' = "next"
    /\ UNCHANGED <<total, candidates, yielded, conferences, enabled, exc, importers,
                   stepIdx, pos, context, events, log, printed, draws, pending,
                   committed, commits, syncs>>
    /\ UNCHANGED dvars

\* line 178: EventContextFactory(counter, self) reads the stored legacy counter
\* and seeds the class attribute with it
MakeContextFactory ==
    /\ pc = "factory"
    /\ seed' \in 0..MaxSeed
    /\ event_id_counter' = seed'
    /\ pc' = "next"
    /\ UNCHANGED <<total, candidates, yielded, conferences, enabled, exc, importers,
                   stepIdx, pos, context, events, log, printed, draws, pending,
                   committed, commits, syncs>>
    /\ UNCHANGED dvars

\* variant: the loop iterates over self._iter_events() without a periodic commit
CommitDueNever(i) == FALSE

\* committing_iterator: if i % n == 0: db.session.commit()
CommitDue(i) == i > 0 /\ i % committing_n = 0

\* flushing_iterator: if i % n == 0: conn.sync()
SyncDue(i) == i > 0 /\ i % flushing_n = 0

\* line 181-182: the iterator chain is advanced.  committing_iterator resumes
\* first (commit every committing_n items), then flushing_iterator (conn.sync()
\* every flushing_n items), then the next conference is yielded and wrapped in
\* a context; on exhaustion committing_iterator commits once more.
NextRecord ==
    /\ pc = "next"
    /\ LET commitNow == CommitDue(yielded)
           syncNow == SyncDue(yielded)
           exhausted == pos = total
           nCommits == (IF commitNow THEN 1 ELSE 0) + (IF exhausted THEN 1 ELSE 0)
       IN  /\ syncs' = IF syncNow THEN syncs + 1 ELSE syncs
           /\ commits' = commits + nCommits
           /\ committed' = IF nCommits > 0 THEN committed \cup pending ELSE committed
           /\ pending' = IF nCommits > 0 THEN {} ELSE pending
           /\ IF exhausted
              THEN /\ pc' = "teardown"
                   /\ stepIdx' = 1
                   /\ UNCHANGED <<pos, yielded, context, log, conferences>>
              ELSE /\ \E conf \in candidates :
                        \* zodb_root['conferences'] is keyed by id: ids are distinct
                        /\ \A k \in 1..Len(conferences) : conferences[k].id # conf.id
                        /\ conferences' = Append(conferences, conf)
                   /\ pos' = pos + 1
                   /\ yielded' = yielded + 1
                   /\ context' = [NoContext EXCEPT !.rec = pos + 1]
                   /\ log' = Append(log, Call("context", "", pos + 1))
                   /\ pc' = "create_event"
                   /\ UNCHANGED stepIdx
    /\ UNCHANGED <<total, candidates, seed, enabled, exc, importers, event_id_counter,
                   events, printed, draws>>
    /\ UNCHANGED dvars

\* variant: the handler leaves the loop (break) instead of continuing
AfterSkipBreak == "teardown"

\* line 186: continue, the loop asks the iterator for the next record
AfterSkip == "next"

\* lines 86-115: context.create_event()
CreateEvent ==
    /\ pc = "create_event"
    /\ LET rec == context.rec
           conf == conferences[rec]
           legacy == is_legacy_id(conf.id)
           counter1 == IF legacy THEN gen_event_id(event_id_counter) ELSE event_id_counter
           event_id == IF legacy THEN counter1 ELSE direct_event_id(conf.id)
           called == Append(log, Call("create_event", "", rec))
       IN  /\ event_id_counter' = counter1
           /\ draws' = IF legacy THEN Append(draws, [rec |-> rec, value |-> counter1])
                       ELSE draws
           /\ IF ~HasTitle(conf)
              THEN \* lines 93-95
                   /\ printed' = Append(printed, ErrorLine("Event has no title in ZODB", conf.id))
                   /\ log' = Append(called, Call("SkipEvent", "", rec))
                   /\ context' = [context EXCEPT !.is_legacy = legacy]
                   /\ pc' = "skip_event"
                   /\ UNCHANGED <<events, pending, exc, stepIdx>>
              ELSE IF parent_category(conf) \in LookupErrors
              THEN \* lines 97-101
                   /\ printed' = Append(printed, ErrorLine("Event has no category!", conf.id))
                   /\ log' = Append(called, Call("SkipEvent", "", rec))
                   /\ context' = [context EXCEPT !.is_legacy = legacy]
                   /\ pc' = "skip_event"
                   /\ UNCHANGED <<events, pending, exc, stepIdx>>
              ELSE IF FirstMissing(conf) # None
              THEN \* lines 107-112: conf.__dict__[...] raises KeyError
                   /\ printed' = printed \o EventWarnings(conf, rec)
                   /\ log' = called
                   /\ context' = [context EXCEPT !.is_legacy = legacy]
                   /\ exc' = TRUE
                   /\ pc' = "except"
                   /\ UNCHANGED <<events, pending, stepIdx>>
              ELSE \* lines 103-115
                   /\ printed' = printed \o EventWarnings(conf, rec)
                   /\ log' = called
                   /\ events' = Append(events, BuildEvent(conf, rec, event_id))
                   /\ context' = [context EXCEPT !.is_legacy = legacy,
                                                 !.event = <<BuildEvent(conf, rec, event_id)>>]
                   /\ pending' = pending \cup {rec}
                   /\ stepIdx' = 1
                   /\ pc' = "run_step"
                   /\ UNCHANGED exc
    /\ UNCHANGED <<total, candidates, yielded, conferences, seed, enabled, importers,
                   pos, committed, commits, syncs>>
    /\ UNCHANGED dvars

\* lines 185-186: except SkipEvent: continue
CatchSkipEvent ==
    /\ pc = "skip_event"
    /\ pc' = AfterSkip
    /\ stepIdx' = IF AfterSkip = "teardown" THEN 1 ELSE stepIdx
    /\ UNCHANGED <<total, candidates, yielded, conferences, seed, enabled, exc,
                   importers, pos, context, event_id_counter, events, log, printed,
                   draws, pending, committed, commits, syncs>>
    /\ UNCHANGED dvars

\* lines 187-189 and 117-119: context.run_step(importer) = bind, then run
RunStep ==
    /\ pc = "run_step"
    /\ stepIdx <= Len(importers)
    /\ log' = log \o <<Call("bind", importers[stepIdx], context.rec),
                       Call("run", importers[stepIdx], context.rec)>>
    /\ stepIdx' = stepIdx + 1
    /\ pc' = IF stepIdx = Len(importers) THEN "next" ELSE "run_step"
    /\ UNCHANGED <<total, candidates, yielded, conferences, seed, enabled, exc,
                   importers, pos, context, event_id_counter, events, printed, draws,
                   pending, committed, commits, syncs>>
    /\ UNCHANGED dvars

\* importer.run() raises
RunStepRaises ==
    /\ pc = "run_step"
    /\ stepIdx <= Len(importers)
    /\ log' = log \o <<Call("bind", importers[stepIdx], context.rec),
                       Call("run", importers[stepIdx], context.rec)>>
    /\ exc' = TRUE
    /\ pc' = "except"
    /\ UNCHANGED <<total, candidates, yielded, conferences, seed, enabled, importers,
                   stepIdx, pos, context, event_id_counter, events, printed, draws,
                   pending, committed, commits, syncs>>
    /\ UNCHANGED dvars

\* variant: the teardown loop stops one step early
TeardownStepButLast ==
    /\ pc = "teardown"
    /\ stepIdx <= Len(importers)
    /\ log' = Append(log, Call("teardown", importers[stepIdx], 0))
    /\ stepIdx' = stepIdx + 1
    /\ pc' = IF stepIdx >= Len(importers) - 1 THEN "commit" ELSE "teardown"
    /\ UNCHANGED <<total, candidates, yielded, conferences, seed, enabled, exc,
                   importers, pos, context, event_id_counter, events, printed, draws,
                   pending, committed, commits, syncs>>
    /\ UNCHANGED dvars

\* lines 191-192: importer.teardown()
TeardownStep ==
    /\ pc = "teardown"
    /\ stepIdx <= Len(importers)
    /\ log' = Append(log, Call("teardown", importers[stepIdx], 0))
    /\ stepIdx' = stepIdx + 1
    /\ pc' = IF stepIdx = Len(importers) THEN "commit" ELSE "teardown"
    /\ UNCHANGED <<total, candidates, yielded, conferences, seed, enabled, exc,
                   importers, pos, context, event_id_counter, events, printed, draws,
                   pending, committed, commits, syncs>>
    /\ UNCHANGED dvars

\* importer.teardown() raises
TeardownStepRaises ==
    /\ pc = "teardown"
    /\ stepIdx <= Len(importers)
    /\ log' = Append(log, Call("teardown", importers[stepIdx], 0))
    /\ exc' = TRUE
    /\ pc' = "except"
    /\ UNCHANGED <<total, candidates, yielded, conferences, seed, enabled, importers,
                   stepIdx, pos, context, event_id_counter, events, printed, draws,
                   pending, committed, commits, syncs>>
    /\ UNCHANGED dvars

\* line 161: db.session.commit() after migrate_event_data returned
CommitEventData ==
    /\ pc = "commit"
    /\ Commit
    /\ pc' = "finally"
    /\ UNCHANGED <<total, candidates, yielded, conferences, seed, enabled, exc,
                   importers, stepIdx, pos, context, event_id_counter, events, log,
                   printed, draws, syncs>>
    /\ UNCHANGED dvars

\* line 161: the commit raises
CommitEventDataRaises ==
    /\ pc = "commit"
    /\ exc' = TRUE
    /\ pc' = "except"
    /\ UNCHANGED <<total, candidates, yielded, conferences, seed, enabled, importers,
                   stepIdx, pos, context, event_id_counter, events, log, printed, draws,
                   pending, committed, commits, syncs>>
    /\ UNCHANGED dvars

\* variant without the finally clause: the triggers are enabled on the success
\* path only, so the re-raised exception leaves migrate() at once
ExceptWithoutFinally ==
    /\ pc = "except"
    /\ Rollback
    /\ pc' = "raised"
    /\ UNCHANGED <<total, candidates, yielded, conferences, seed, enabled, exc,
                   importers, stepIdx, pos, context, event_id_counter, events, log,
                   printed, draws, syncs>>
    /\ UNCHANGED dvars

\* lines 162-164: except: db.session.rollback(); raise (through finally)
Except ==
    /\ pc = "except"
    /\ Rollback
    /\ pc' = "finally"
    /\ UNCHANGED <<total, candidates, yielded, conferences, seed, enabled, exc,
                   importers, stepIdx, pos, context, event_id_counter, events, log,
                   printed, draws, syncs>>
    /\ UNCHANGED dvars

\* lines 165-167: finally: ALTER TABLE events.<table> ENABLE TRIGGER
\* consistent_timetable for each of the four tables; then the pending
\* exception, if any, leaves migrate()
EnableTriggers ==
    /\ pc = "finally"
    /\ enabled' = [t \in Range(tables) |-> TRUE]
    /\ pc' = IF exc THEN "raised" ELSE "commit_last"
    /\ UNCHANGED <<total, candidates, yielded, conferences, seed, exc, importers,
                   stepIdx, pos, context, event_id_counter, events, log, printed, draws,
                   pending, committed, commits, syncs>>
    /\ UNCHANGED dvars

\* line 168: db.session.commit(), then migrate() returns
LastCommit ==
    /\ pc = "commit_last"
    /\ Commit
    /\ pc' = "returned"
    /\ UNCHANGED <<total, candidates, yielded, conferences, seed, enabled, exc,
                   importers, stepIdx, pos, context, event_id_counter, events, log,
                   printed, draws, syncs>>
    /\ UNCHANGED dvars

\* ------------------------------------------------------------ migrate.py
\* migrate(): the step classes run by the driver, in order (line 42)
steps == <<"GlobalPreEventsImporter", "UserImporter", "CategoryImporter",
           "GlobalPostEventsImporter">>

\* db_has_data(): the models whose tables are probed (line 54)
models == <<"Category", "User", "LocalGroup", "NewsItem", "IPNetworkGroup">>

\* tables of the target store that may hold rows before the run
StoreModels == Range(models) \cup {"Event"}

\* db_has_data(): some probed model has rows
db_has_data == \E k \in 1..Len(models) : models[k] \in dbRows

\* what the operator may type at the confirmation prompt
Answers == {"YES", "yes", "Y", "NO", ""}

\* variant: the confirmation is compared without regard to case
ConfirmedIgnoringCase(input) == input \in {"YES", "yes"}

\* line 91: only the input 'YES' confirms
Confirmed(input) == input = "YES"

\* setup(), lines 62-70: plugins are loaded; a failure exits with status 1
LoadPlugins ==
    /\ dpc = "load_plugins"
    /\ \/ /\ dpc' = "check_data"
          /\ UNCHANGED console
       \/ /\ dpc' = "exit1"
          /\ console' = Append(console, "Could not load some plugins")
    /\ UNCHANGED <<dbRows, answer, dstep, stepsRun, touched>>
    /\ UNCHANGED evars

\* setup(), lines 84-94: the target store must be empty, or the operator
\* confirms with YES; otherwise 'Aborting' and sys.exit(1)
CheckData ==
    /\ dpc = "check_data"
    /\ IF ~db_has_data
       THEN /\ dpc' = "steps"
            /\ UNCHANGED console
       ELSE IF ~Confirmed(answer)
       THEN /\ dpc' = "exit1"
            /\ console' = console \o <<"*** WARNING", "Aborting">>
       ELSE /\ dpc' = "steps"
            /\ console' = Append(console, "*** WARNING")
    /\ dstep' = 1
    /\ UNCHANGED <<dbRows, answer, stepsRun, touched>>
    /\ UNCHANGED evars

\* migrate(), lines 47-49: step(...).run() constructs the step and runs its
\* migrate(), which writes to the target store
RunDriverStep ==
    /\ dpc = "steps"
    /\ dstep <= Len(steps)
    /\ stepsRun' = Append(stepsRun, steps[dstep])
    /\ touched' = TRUE
    /\ dstep' = dstep + 1
    /\ dpc' = IF dstep = Len(steps) THEN "done" ELSE "steps"
    /\ UNCHANGED <<dbRows, answer, console>>
    /\ UNCHANGED evars

\* a step's run() raises: the error leaves migrate()
RunDriverStepRaises ==
    /\ dpc = "steps"
    /\ dstep <= Len(steps)
    /\ stepsRun' = Append(stepsRun, steps[dstep])
    /\ touched' = TRUE
    /\ dpc' = "failed"
    /\ UNCHANGED <<dbRows, answer, dstep, console>>
    /\ UNCHANGED evars

DriverIdle ==
    /\ dbRows = {}
    /\ answer = ""
    /\ dpc = "idle"
    /\ dstep = 1
    /\ stepsRun = <<>>
    /\ touched = FALSE
    /\ console = <<>>

\* the state in which EventImporter.migrate() is entered
StartOfMigrate ==
    /\ total \in 0..MaxEvents
    /\ conferences = <<>>
    /\ seed = 0
    /\ pc = "commit0"
    /\ enabled = [t \in Range(tables) |-> TRUE]
    /\ exc = FALSE
    /\ importers = <<>>
    /\ stepIdx = 1
    /\ pos = 0
    /\ yielded = 0
    /\ context = NoContext
    /\ event_id_counter = -1
    /\ events = <<>>
    /\ log = <<>>
    /\ printed = <<>>
    /\ draws = <<>>
    /\ pending = {}
    /\ committed = {}
    /\ commits = 0
    /\ syncs = 0
    /\ DriverIdle

Init ==
    /\ candidates = Conferences
    /\ StartOfMigrate

Next ==
    \/ FirstCommit
    \/ DisableTriggers
    \/ Construct
    \/ SetupStep
    \/ SetupStepRaises
    \/ MakeContextFactory
    \/ NextRecord
    \/ CreateEvent
    \/ CatchSkipEvent
    \/ RunStep
    \/ RunStepRaises
    \/ TeardownStep
    \/ TeardownStepRaises
    \/ CommitEventData
    \/ CommitEventDataRaises
    \/ Except
    \/ EnableTriggers
    \/ LastCommit

Spec == Init /\ [][Next]_vars

\* the same run over legacy records that differ in their dates and timezone
InitDates ==
    /\ candidates = DateConferences
    /\ StartOfMigrate

SpecDates == InitDates /\ [][Next]_vars

EventsIdle ==
    /\ total = 0
    /\ candidates = {}
    /\ conferences = <<>>
    /\ seed = 0
    /\ pc = "idle"
    /\ enabled = [t \in Range(tables) |-> TRUE]
    /\ exc = FALSE
    /\ importers = <<>>
    /\ stepIdx = 1
    /\ pos = 0
    /\ yielded = 0
    /\ context = NoContext
    /\ event_id_counter = -1
    /\ events = <<>>
    /\ log = <<>>
    /\ printed = <<>>
    /\ draws = <<>>
    /\ pending = {}
    /\ committed = {}
    /\ commits = 0
    /\ syncs = 0

InitDriver ==
    /\ dbRows \in SUBSET StoreModels
    /\ answer \in Answers
    /\ dpc = "load_plugins"
    /\ dstep = 1
    /\ stepsRun = <<>>
    /\ touched = FALSE
    /\ console = <<>>
    /\ EventsIdle

NextDriver ==
    \/ LoadPlugins
    \/ CheckData
    \/ RunDriverStep
    \/ RunDriverStepRaises

SpecDriver == InitDriver /\ [][NextDriver]_vars

\* ------------------------------------------------------- a long run
\* The periodic commit and sync need committing_n and flushing_n records.
\* SpecLongRun starts migrate_event_data inside its loop (line 181), at the
\* moment the iterator chain is asked for the next record, after `yielded`
\* earlier records of the store were all skipped without a draw (modern ids
\* other than those of Ids, no title).  total, conferences, pos, log and
\* printed cover the records still to come; every other variable has the
\* value the run has at that moment: triggers disabled, steps set up, no
\* Event staged or committed, one commit per committing_n records and one
\* sync per flushing_n records so far.
LongRunYielded == {committing_n - 1, flushing_n - 1}

InitLongRun ==
    /\ total \in 0..MaxEvents
    /\ candidates = Conferences
    /\ yielded \in LongRunYielded
    /\ conferences = <<>>
    /\ seed \in 0..MaxSeed
    /\ pc = "next"
    /\ enabled = [t \in Range(tables) |-> FALSE]
    /\ exc = FALSE
    /\ importers = _get_all_steps
    /\ stepIdx = Len(_get_all_steps) + 1
    /\ pos = 0
    /\ context = NoContext
    /\ event_id_counter = seed
    /\ events = <<>>
    /\ log = <<>>
    /\ printed = <<>>
    /\ draws = <<>>
    /\ pending = {}
    /\ committed = {}
    /\ commits = 1 + (yielded \div committing_n)
    /\ syncs = yielded \div flushing_n
    /\ DriverIdle

NextLongRun ==
    \/ NextRecord
    \/ CreateEvent
    \/ CatchSkipEvent
    \/ RunStep
    \/ RunStepRaises
    \/ TeardownStep
    \/ TeardownStepRaises
    \/ CommitEventData
    \/ CommitEventDataRaises
    \/ Except
    \/ EnableTriggers
    \/ LastCommit

SpecLongRun == InitLongRun /\ [][NextLongRun]_vars


\* ================================================================ properties
IsPrefix(a, b) == Len(a) <= Len(b) /\ \A k \in 1..Len(a) : a[k] = b[k]

AllDisabled == \A t \in Range(tables) : ~enabled[t]
AllEnabled == \A t \in Range(tables) : enabled[t]

\* steps on which `op` was called for record r, in call order
StepsCalled(op, r) ==
    LET sel == SelectSeq(log, LAMBDA e : e.op = op /\ e.rec = r)
    IN  [k \in 1..Len(sel) |-> sel[k].step]

\* records on which `op` was called, in call order
RecordsCalled(op) ==
    LET sel == SelectSeq(log, LAMBDA e : e.op = op)
    IN  [k \in 1..Len(sel) |-> sel[k].rec]

Created(r) == \E k \in 1..Len(events) : events[k].rec = r
Reached(r) == \E k \in 1..Len(log) : log[k].op = "create_event" /\ log[k].rec = r
Skipped(r) == \E k \in 1..Len(log) : log[k].op = "SkipEvent" /\ log[k].rec = r
NoStepFor(r) == \A k \in 1..Len(log) : log[k].rec = r => log[k].op \notin {"bind", "run"}

\* the order of the importer steps as the specification lists it
ClaimedOrder ==
    <<"EventMiscImporter", "EventTypeImporter", "EventACLImporter", "EventLogImporter",
      "EventSettingsImporter", "EventPaymentSettingsImporter", "EventAlarmImporter",
      "EventImageImporter", "EventLayoutImporter", "EventShortUrlsImporter",
      "EventMenuImporter", "EventSurveyImporter", "EventRegFormImporter",
      "EventTracksImporter", "EventParticipantsImporter", "EventAbstractImporter",
      "EventTimetableImporter", "EventAttachmentsImporter", "EventLegacyIdImporter">>

C2_DeclinedConfirmationAborts ==
    (db_has_data /\ answer # "YES" /\ dpc \notin {"load_plugins", "check_data"})
        => (dpc = "exit1" /\ stepsRun = <<>> /\ ~touched)

\* the operator typed 'yes' (lower case) and the driver aborted
C2_Witness ==
    /\ db_has_data
    /\ answer = "yes"
    /\ dpc = "exit1"
    /\ console = <<"*** WARNING", "Aborting">>
    /\ stepsRun = <<>>

\* ---------------------------------------------------------------------- C3
\* C3: a target store whose only pre-existing data is one event is detected
\* as non-empty: without the operator's override no step is run.
C3_EventOnlyStoreAborts ==
    (dbRows = {"Event"} /\ answer # "YES") => (stepsRun = <<>> /\ dpc # "done")

\* ---------------------------------------------------------------------- C4
\* C4: every completed run of the driver executed the event pipeline
\* (EventImporter) after the global pre-event phase and before the global
\* post-event phase.
C4_EventPipelineBetweenGlobalPhases ==
    dpc = "done" =>
        \E a, b, c \in 1..Len(stepsRun) :
            /\ a < b /\ b < c
            /\ stepsRun[a] = "GlobalPreEventsImporter"
            /\ stepsRun[b] = "EventImporter"
            /\ stepsRun[c] = "GlobalPostEventsImporter"

\* ---------------------------------------------------------------------- C5
\* C5: for every created event each importer step is bound and then run
\* exactly once, in the fixed order Misc .. LegacyId; all steps of one event
\* have finished before the next record's context is constructed; records
\* are taken in the legacy store's iteration order.
C5_StepsInFixedOrderPerEvent ==
    /\ \A r \in 1..pos :
          LET runs == StepsCalled("run", r)
          IN  /\ IsPrefix(runs, ClaimedOrder)
              /\ (Created(r) /\ (r < pos \/ pc = "returned")) => runs = ClaimedOrder
    /\ \A k \in 1..Len(log) :
          /\ log[k].op = "run" =>
                (k > 1 /\ log[k - 1] = [log[k] EXCEPT !.op = "bind"])
          /\ log[k].op = "bind" =>
                (k < Len(log) /\ log[k + 1] = [log[k] EXCEPT !.op = "run"])
    /\ \A k \in 2..Len(log) :
          (log[k].rec # 0 /\ log[k - 1].rec # 0) => log[k - 1].rec <= log[k].rec
    /\ RecordsCalled("context") = [k \in 1..pos |-> k]

\* two events were created and the run completed
C5_Witness ==
    /\ pc = "returned"
    /\ Len(events) = 2
    /\ StepsCalled("run", 1) = ClaimedOrder
    /\ StepsCalled("run", 2) = ClaimedOrder

\* ---------------------------------------------------------------------- C6
\* C6: a legacy record without a 'title' attribute is skipped: an error is
\* printed, SkipEvent is raised, no Event is built and no step is bound or
\* run for it.
C6_NoTitleIsSkipped ==
    \A r \in 1..pos :
        ("title" \notin DOMAIN conferences[r].dict /\ Reached(r)) =>
            /\ ErrorLine("Event has no title in ZODB", conferences[r].id) \in Range(printed)
            /\ Skipped(r)
            /\ ~Created(r)
            /\ NoStepFor(r)
            /\ r \notin pending \cup committed

\* a record without title was skipped and the run completed
C6_Witness ==
    /\ pc = "returned"
    /\ \E r \in 1..pos : "title" \notin DOMAIN conferences[r].dict /\ Skipped(r)

\* ---------------------------------------------------------------------- C7
\* C7: a legacy record whose owner list is empty, or whose owner is not a key
\* of legacy_category_ids, is skipped with an error and gets no Event and no
\* step; every Event that is built has the category the lookup resolves to.
C7_UnresolvedCategoryIsSkipped ==
    /\ \A r \in 1..pos :
          LET conf == conferences[r]
              unresolved == \/ conf.owners = <<>>
                            \/ Head(conf.owners) \notin {"10"}
          IN  (unresolved /\ Reached(r)) =>
                  /\ Skipped(r)
                  /\ ~Created(r)
                  /\ NoStepFor(r)
                  /\ "title" \in DOMAIN conf.dict =>
                        ErrorLine("Event has no category!", conf.id) \in Range(printed)
    /\ \A k \in 1..Len(events) :
          LET conf == conferences[events[k].rec]
          IN  /\ conf.owners # <<>>
              /\ Head(conf.owners) = "10"
              /\ events[k].category = "Category10"

\* one record with an empty owner list and one with an unknown owner were
\* both skipped
C7_Witness ==
    /\ pc = "returned"
    /\ \E r \in 1..pos :
          conferences[r].owners = <<>> /\ "title" \in DOMAIN conferences[r].dict /\ Skipped(r)
    /\ \E r \in 1..pos :
          conferences[r].owners = <<"20">> /\ "title" \in DOMAIN conferences[r].dict /\ Skipped(r)

\* ---------------------------------------------------------------------- C8
\* C8: SkipEvent never aborts the batch: right after a skip the loop goes on
\* to the next record, and a run that returns has passed every record to
\* create_event, built an Event and run all steps for every valid record,
\* torn every step down and committed.
C8_SkipDoesNotAbortBatch ==
    /\ (log # <<>> /\ log[Len(log)].op = "SkipEvent") =>
          /\ ~exc
          /\ \/ pc \in {"skip_event", "next"}
             \/ pos = total /\ pc = "teardown"
    /\ pc = "returned" =>
          /\ RecordsCalled("create_event") = [k \in 1..total |-> k]
          /\ \A r \in 1..total :
                LET conf == conferences[r]
                    valid == /\ "title" \in DOMAIN conf.dict
                             /\ conf.owners # <<>>
                             /\ Head(conf.owners) = "10"
                IN  valid => (Created(r) /\ StepsCalled("run", r) = ClaimedOrder)
          /\ StepsCalled("teardown", 0) = ClaimedOrder
          /\ commits >= 3
          /\ committed = {events[k].rec : k \in 1..Len(events)}
          /\ pending = {}

\* the first record was skipped, the second got its Event and all steps, and
\* the run completed
C8_Witness ==
    /\ pc = "returned"
    /\ total = 2
    /\ Skipped(1)
    /\ Created(2)
    /\ StepsCalled("run", 2) = ClaimedOrder
    /\ committed = {2}

\* ---------------------------------------------------------------------- C9
\* C9: an event created from a record whose id is not in legacy format gets
\* exactly that id (as an integer) and its context is not flagged is_legacy;
\* a context is flagged is_legacy exactly when its id was drawn from the
\* counter.
C9_ModernIdIsKept ==
    /\ \A k \in 1..Len(events) :
          LET conf == conferences[events[k].rec]
          IN  ~is_legacy_id(conf.id) =>
                  /\ str(events[k].id) = conf.id
                  /\ \A d \in Range(draws) : d.rec # events[k].rec
    /\ (context.rec > 0 /\ pc # "create_event") =>
          LET conf == conferences[context.rec]
              drawn == \E d \in Range(draws) : d.rec = context.rec
          IN  /\ context.is_legacy <=> drawn
              /\ ~is_legacy_id(conf.id) => ~context.is_legacy
              /\ context.event # <<>> =>
                    /\ events[Len(events)] = context.event[1]
                    /\ context.event[1].rec = context.rec
                    /\ context.is_legacy =>
                          \E d \in Range(draws) :
                              d.rec = context.rec /\ d.value = context.event[1].id

\* the event of record "1" was created with id 1 after a legacy-format record
\* got a drawn id
C9_Witness ==
    /\ Len(events) = 2
    /\ conferences[events[1].rec].id = <<"a">>
    /\ conferences[events[2].rec].id = <<"1">>
    /\ events[2].id = 1
    /\ context.event = <<events[2]>>
    /\ ~context.is_legacy

\* --------------------------------------------------------------------- C10
\* C10: the synthetic ids come from one counter seeded with the stored legacy
\* counter value: the k-th draw of a run is seed + k, draws follow the input
\* order, and no two events receive the same synthetic id, also when a
\* record is skipped between draws.
C10_SyntheticIdsStrictlyIncrease ==
    /\ \A k \in 1..Len(draws) : draws[k].value = seed + k
    /\ \A k, l \in 1..Len(draws) : k < l => draws[k].rec < draws[l].rec
    /\ {draws[k].rec : k \in 1..Len(draws)}
           = {r \in 1..pos : is_legacy_id(conferences[r].id) /\ Reached(r)}
    /\ pc \in {"next", "create_event", "skip_event", "run_step", "teardown"}
           => event_id_counter = seed + Len(draws)
    /\ \A k \in 1..Len(events) :
          is_legacy_id(conferences[events[k].rec].id) =>
              \E d \in 1..Len(draws) :
                  draws[d].rec = events[k].rec /\ events[k].id = draws[d].value
    /\ \A k, l \in 1..Len(events) :
          (k # l /\ is_legacy_id(conferences[events[k].rec].id)
                 /\ is_legacy_id(conferences[events[l].rec].id))
              => events[k].id # events[l].id

\* the first legacy-format record was skipped after its draw, the second one
\* got the next value
C10_Witness ==
    /\ total = 2
    /\ Skipped(1)
    /\ Len(draws) = 2
    /\ Len(events) = 1
    /\ events[1].rec = 2
    /\ events[1].id = seed + 2

\* --------------------------------------------------------------------- C11
\* C11: no two events created in one run have the same id, whether the id is
\* a numeric legacy id reused directly or a value drawn from the counter; a
\* drawn id never equals the directly reused numeric id of another event.
C11_EventIdsUnique ==
    \A k, l \in 1..Len(events) : k # l => events[k].id # events[l].id

\* every modern numeric id read so far is at most the stored legacy counter
\* value (the ids were issued by that counter)
NumericIdsWithinCounter ==
    \A r \in 1..Len(conferences) :
        ~is_legacy_id(conferences[r].id) => int(conferences[r].id) <= seed

\* C11 (amended): every id drawn from the counter is above the stored legacy
\* counter value, ids drawn are pairwise distinct and directly reused ids are
\* pairwise distinct; so when no directly reused numeric id exceeds the
\* stored counter value, no two events created in one run have the same id.
C11_EventIdsUniqueWithinCounter ==
    /\ \A k \in 1..Len(draws) : draws[k].value > seed
    /\ \A k, l \in 1..Len(events) :
          (k # l /\ is_legacy_id(conferences[events[k].rec].id)
                  = is_legacy_id(conferences[events[l].rec].id))
              => events[k].id # events[l].id
    /\ NumericIdsWithinCounter => C11_EventIdsUnique

\* with the counter stored at 1, the record with id "1" kept its id and a
\* legacy-format record got the drawn id 2
C11_Witness ==
    /\ seed = 1
    /\ Len(events) = 2
    /\ \E k, l \in 1..2 :
          /\ conferences[events[k].rec].id = <<"1">>
          /\ events[k].id = 1
          /\ is_legacy_id(conferences[events[l].rec].id)
          /\ events[l].id = 2

\* --------------------------------------------------------------------- C12
\* a step's run() raised while the current record's event was processed
StepRaised == exc /\ log # <<>> /\ log[Len(log)].op = "run"

\* enumerate index of the last record up to which the periodic commit of
\* committing_iterator has run when record number `yielded` is being processed
LastCheckpoint == ((yielded - 1) \div committing_n) * committing_n

\* C12: once a step has raised while an event is processed, the session is
\* rolled back and no commit is issued any more: the failing event is never
\* committed, nothing is left staged, exactly the events handled up to the last
\* periodic commit are in the target store, and migrate() does not return
\* normally (the error leaves it).
C12_StepErrorRollsBackToLastCheckpoint ==
    StepRaised =>
        /\ pc \in {"except", "finally", "raised"}
        /\ context.rec \notin committed
        /\ pc # "except" => pending = {}
        /\ commits = 1 + (LastCheckpoint \div committing_n)
        /\ committed = {events[k].rec : k \in {j \in 1..Len(events) :
                            (yielded - pos) + events[j].rec <= LastCheckpoint}}

\* the first event was committed at the periodic checkpoint, a step of the
\* second event raised, and the error has left migrate()
C12_Witness ==
    /\ StepRaised
    /\ pc = "raised"
    /\ Len(events) = 2
    /\ context.rec = 2
    /\ committed = {1}
    /\ pending = {}

\* --------------------------------------------------------------------- C13
\* legacy-format records that have reached create_event
LegacyReached == {r \in 1..pos : is_legacy_id(conferences[r].id) /\ Reached(r)}

\* The counter is one more per legacy-format record that reached
\* create_event, whether or not the record was then skipped, and a record
\* with a modern numeric id never draws.
CounterAdvancesPerLegacyRecord ==
    LET reached == LegacyReached
    IN  /\ event_id_counter >= 0 => event_id_counter = seed + Cardinality(reached)
        /\ \A r \in reached :
              \E k \in 1..Len(draws) : draws[k].rec = r /\ draws[k].value > seed
        /\ \A k \in 1..Len(draws) : draws[k].rec \in reached
        /\ \A k, l \in 1..Len(draws) : k # l => draws[k].rec # draws[l].rec

\* C13: the counter advances only for legacy-format ids, by exactly one per
\* such record reaching create_event, before validation; the value drawn for
\* a record that is then skipped is the id of no event; a record with a
\* modern numeric id never changes the counter.
C13_SkippedDrawIsNeverAnEventId ==
    /\ CounterAdvancesPerLegacyRecord
    /\ \A k \in 1..Len(draws) :
          Skipped(draws[k].rec) =>
              \A j \in 1..Len(events) : events[j].id # draws[k].value

\* C13 (amended): as C13, except that the value drawn for a skipped record is
\* the id of no event that drew its id from the counter, and of no event at
\* all when no directly reused numeric id exceeds the stored counter value.
C13_SkippedDrawIsNeverDrawnAgain ==
    /\ CounterAdvancesPerLegacyRecord
    /\ \A k \in 1..Len(draws) :
          Skipped(draws[k].rec) =>
              \A j \in 1..Len(events) :
                  (is_legacy_id(conferences[events[j].rec].id) \/ NumericIdsWithinCounter)
                      => events[j].id # draws[k].value

\* a legacy-format record was skipped after its draw and a record with a
\* modern id was skipped without one
C13_Witness ==
    /\ pc = "returned"
    /\ total = 2
    /\ Skipped(1) /\ Skipped(2)
    /\ is_legacy_id(conferences[1].id)
    /\ ~is_legacy_id(conferences[2].id)
    /\ draws = <<[rec |-> 1, value |-> seed + 1]>>
    /\ event_id_counter = seed + 1

\* --------------------------------------------------------------------- C14
\* C14: every importer step is constructed once; setup() is called exactly
\* once on every step and all setup calls precede the first context,
\* create_event, bind or run; bind and run are called exactly once per step
\* for each created event and never for a record that got no event;
\* teardown() is called exactly once on every step of a run that gets
\* through its records, after the last record's last step.
C14_StepLifecycle ==
    LET setups == StepsCalled("setup", 0)
        teardowns == StepsCalled("teardown", 0)
    IN  /\ importers \in {<<>>, ClaimedOrder}
        /\ pc \notin {"commit0", "disable", "construct"} => importers = ClaimedOrder
        /\ IsPrefix(setups, ClaimedOrder)
        /\ IsPrefix(teardowns, ClaimedOrder)
        /\ pos > 0 => setups = ClaimedOrder
        /\ teardowns # <<>> => pos = total
        /\ pc \in {"commit", "commit_last", "returned"} => teardowns = ClaimedOrder
        \* the setup calls are the first calls of the run, the teardown calls
        \* the last ones
        /\ \A k \in 1..Len(log) :
              /\ log[k].op = "setup" => k <= Len(setups)
              /\ log[k].op = "teardown" => k > Len(log) - Len(teardowns)
        /\ \A r \in 1..pos :
              LET runs == StepsCalled("run", r)
              IN  /\ StepsCalled("bind", r) = runs
                  /\ IsPrefix(runs, ClaimedOrder)
                  /\ (Created(r) /\ (r < pos \/ pc \notin {"run_step", "except",
                                                             "finally", "raised"}))
                        => runs = ClaimedOrder
                  /\ ~Created(r) => runs = <<>>

\* a run over one skipped and one created record has returned: every step
\* was set up once, bound and run once for the created event, torn down once
C14_Witness ==
    /\ pc = "returned"
    /\ total = 2
    /\ Skipped(1)
    /\ Created(2)
    /\ StepsCalled("setup", 0) = ClaimedOrder
    /\ StepsCalled("bind", 2) = ClaimedOrder
    /\ StepsCalled("bind", 1) = <<>>
    /\ StepsCalled("teardown", 0) = ClaimedOrder

\* --------------------------------------------------------------------- C15
\* attributes other than title that create_event reads from conf.__dict__
OptionalAttrs == {"description", "startDate", "endDate", "timezone"}

\* C15: a record with a title and a resolvable category that lacks one of
\* description, startDate, endDate, timezone is not an error: create_event
\* returns an Event for it and no exception leaves the loop because of it.
C15_MissingAttributeIsNotAnError ==
    \A r \in 1..pos :
        LET conf == conferences[r]
        IN  (/\ Reached(r)
             /\ "title" \in DOMAIN conf.dict
             /\ parent_category(conf) \notin LookupErrors
             /\ ~(OptionalAttrs \subseteq DOMAIN conf.dict))
                => /\ Created(r)
                   /\ ~(exc /\ log[Len(log)] = Call("create_event", "", r))

\* --------------------------------------------------------------------- C16
\* the record's own timezone, UTC when it has none
OwnTimezone(conf) ==
    IF "timezone" \in DOMAIN conf.dict THEN conf.dict.timezone ELSE "UTC"

\* the naive datetimes among the given ones, in order
NaiveAmong(dts) == SelectSeq(dts, LAMBDA dt : dt.tzinfo = None)

\* the naive datetimes of the first k created events, start before end
RECURSIVE NaiveOfEvents(_)
NaiveOfEvents(k) ==
    IF k = 0 THEN <<>>
    ELSE LET conf == conferences[events[k].rec]
         IN  NaiveOfEvents(k - 1) \o NaiveAmong(<<conf.dict.startDate, conf.dict.endDate>>)

\* the naive start of the record at which create_event failed for lack of
\* an endDate (the start is converted before the end is looked up)
NaiveOfFailedRecord ==
    IF /\ exc
       /\ log # <<>>
       /\ log[Len(log)].op = "create_event"
       /\ FirstMissing(conferences[context.rec]) = "endDate"
    THEN NaiveAmong(<<conferences[context.rec].dict.startDate>>)
    ELSE <<>>

\* the datetimes named by the warnings printed so far, in order
WarnedDates ==
    LET w == SelectSeq(printed, LAMBDA line : line.kind = "warning")
    IN  [k \in 1..Len(w) |-> w[k].dt]

\* C16: every created Event has timezone-aware start and end: a naive
\* datetime gets the event's own timezone (UTC when the record has none) and
\* keeps its wall-clock value, an aware datetime is passed through unchanged;
\* the warnings printed are exactly one per converted datetime, in order, and
\* none for an aware datetime.
C16_NaiveDatesAreLocalized ==
    /\ \A k \in 1..Len(events) :
          LET conf == conferences[events[k].rec]
              tz == OwnTimezone(conf)
              Fixed(src, out) ==
                  /\ out.tzinfo # None
                  /\ out.wall = src.wall
                  /\ src.tzinfo = None => out.tzinfo = tz
                  /\ src.tzinfo # None => out = src
          IN  /\ events[k].timezone = tz
              /\ Fixed(conf.dict.startDate, events[k].start_dt)
              /\ Fixed(conf.dict.endDate, events[k].end_dt)
    /\ WarnedDates = NaiveOfEvents(Len(events)) \o NaiveOfFailedRecord

\* one event was created from a record with naive start and end and its own
\* timezone, one from a record with a naive start, an aware end and no
\* timezone: three warnings
C16_Witness ==
    /\ Len(events) = 2
    /\ events[1].start_dt = [wall |-> 10, tzinfo |-> "Europe/Zurich"]
    /\ events[1].end_dt = [wall |-> 12, tzinfo |-> "Europe/Zurich"]
    /\ "timezone" \notin DOMAIN conferences[events[2].rec].dict
    /\ events[2].start_dt = [wall |-> 10, tzinfo |-> "UTC"]
    /\ events[2].end_dt = AwareDt(12)
    /\ Len(WarnedDates) = 3

\* --------------------------------------------------------------------- C17
\* the iterator chain is about to be resumed after a full batch of
\* flushing_n records
AtBatchBoundary == pc = "next" /\ yielded > 0 /\ yielded % flushing_n = 0

\* the record last yielded is done with: its last step has run, or it was
\* skipped (pos = 0: no record of `conferences` has been yielded yet)
LastRecordDone ==
    \/ pos = 0
    \/ log[Len(log)] = Call("run", ClaimedOrder[Len(ClaimedOrder)], pos)
    \/ log[Len(log)] = Call("SkipEvent", "", pos)

\* C17: when flushing_n records (5000), skipped ones included, have been
\* handled, the legacy connection is synced and the session is committed in
\* the same resumption of the iterator chain, before the next record is
\* fetched; a sync happens nowhere else, and neither a sync nor a commit
\* happens between a record's create_event and the end of its last step.
C17_SyncAndCommitAtBatchBoundary ==
    [][/\ AtBatchBoundary =>
            /\ LastRecordDone
            /\ syncs' = syncs + 1
            /\ commits' = commits + 1 + (IF pos = total THEN 1 ELSE 0)
            /\ pending' = {}
            /\ committed' = committed \cup pending
       /\ syncs' # syncs => AtBatchBoundary
       /\ (syncs' # syncs \/ commits' # commits) =>
            /\ pc \notin {"create_event", "skip_event", "run_step"}
            /\ pc = "next" => LastRecordDone]_vars

\* the 5000th record got an event, which was committed when the connection
\* was synced, and the next record has been fetched
C17_Witness ==
    /\ yielded = flushing_n + 1
    /\ syncs = 1
    /\ pc = "create_event"
    /\ Created(1)
    /\ committed = {1}
    /\ pending = {}

====
